---- MODULE Spec2Model ----
(***************************************************************************)
(* A model of the source RCON client: the packet codec (pkt.WriteTo,       *)
(* pkt.ReadFrom), the authentication handshake (Client.auth), and the      *)
(* single- and multi-packet request/response exchange (Client.ExecCmd,     *)
(* readSingle, readMulti, writePkt, writeMulti).                           *)
(*                                                                         *)
(* Strings and byte slices are sequences of bytes (0..255).  int32 values  *)
(* are integers in -2^31 .. 2^31-1 and are put on the wire little-endian.  *)
(***************************************************************************)
EXTENDS Integers, Sequences, FiniteSets, TLC

VARIABLES
    pwd,        \* Client.pwd: the configured password (a byte string)
    multi,      \* TRUE: c.read/c.write are readMulti/writeMulti; FALSE: readSingle/writePkt
    reqID,      \* Client.reqID
    pc,         \* position of the client: see Init and the actions
    expectedID, \* ExecCmd's local expectedID, handed to c.read
    buf,        \* readMulti's local buf
    cnt,        \* readMulti's local cnt
    got,        \* the packets readPkt has returned to the operation in progress,
                \* in order; <<>> when none is in progress
    result,     \* what the last operation returned, [op, err, msg, resp]; err is
                \* "running" until it returns
    closed,     \* the client has closed c.conn
    out,        \* every byte the client has written to the connection, in order
    stream,     \* bytes sent by the peer and not yet consumed by the client
    eof,        \* the peer's stream has ended (closed, or the read deadline expired)
    sent,       \* number of frames the peer has sent
    ncmd,       \* number of ExecCmd calls started
    desync,     \* history: an ExecCmd of this client has returned a
                \* malformed-response error
    tx,         \* codec harness: the frames to put on the stream, in order
    rx,         \* codec harness: what each ReadFrom returned, in order
    callers,    \* two callers of ExecCmd on one client: each caller's position
                \* and locals; <<>> elsewhere
    command     \* Cmd harness: the Cmd value under construction

vars == <<pwd, multi, reqID, pc, expectedID, buf, cnt, got, result, closed,
          out, stream, eof, sent, ncmd,
                   desync, tx, rx, callers, command>>

----------------------------------------------------------------------------
(* The packet types.                                                       *)
responseValue == 0
execCommand == 2
auth == 3
authResponse == 2

(* responseBody: the body of the second reply to the empty packet.       *)
responseBody == <<0, 1, 0, 0>>

MaxInt32 == 2147483647
MinInt32 == (-2147483647) - 1

Take(s, k) == SubSeq(s, 1, k)
Drop(s, k) == SubSeq(s, k + 1, Len(s))

(* binary.Write(buf, binary.LittleEndian, int32): four bytes, least       *)
(* significant first, two's complement.                                    *)
PutLE32Swapped(v) ==
    LET u == IF v >= 0 THEN v ELSE (v + MaxInt32) + 1
        top == (u \div 16777216) + (IF v >= 0 THEN 0 ELSE 128)
    IN  <<top, (u \div 65536) % 256, (u \div 256) % 256, u % 256>>

PutLE32(v) ==
    LET u == IF v >= 0 THEN v ELSE (v + MaxInt32) + 1
        top == (u \div 16777216) + (IF v >= 0 THEN 0 ELSE 128)
    IN  <<u % 256, (u \div 256) % 256, (u \div 65536) % 256, top>>

(* binary.Read(r, binary.LittleEndian, &int32) on four bytes.              *)
GetLE32(b) ==
    LET low == b[1] + 256 * b[2] + 65536 * b[3]
    IN  IF b[4] < 128
        THEN low + 16777216 * b[4]
        ELSE ((low + 16777216 * (b[4] - 128)) - MaxInt32) - 1

(* x + 1 on an int32 (wraps).                                              *)
Inc32(x) == IF x = MaxInt32 THEN MinInt32 ELSE x + 1

(* newPkt *)
newPkt(t, id, body) ==
    [Type |-> t, Size |-> Len(body) + 10, ID |-> id, body |-> body]

(* pkt.WriteTo: the bytes handed to w in one Write.                        *)
WriteTo(p) ==
    PutLE32(p.Size) \o PutLE32(p.ID) \o PutLE32(p.Type) \o p.body \o <<0, 0>>

NoPkt == [Type |-> 0, Size |-> 0, ID |-> 0, body |-> <<>>]

(* "p.Size < 10" *)
tooSmallBelow9(size) == size < 9

tooSmall(size) == size < 10

(* "p.Size-8": the length of p.body as ReadFrom makes it.                  *)
payloadLenBody(size) == size - 10

payloadLen(size) == size - 8

(* pkt.ReadFrom on a reader that holds the bytes s; atEnd says that the    *)
(* reader reports a terminal condition (io.EOF, a deadline) once s is      *)
(* used up.  st is                                                         *)
(*   "ok"        a packet was decoded (p), n bytes consumed                *)
(*   "malformed" ErrMalformedResponse(msg)                                 *)
(*   "transport" binary.Read returned the reader's error                   *)
(*   "blocked"   the call waits for more bytes                             *)
(*   "spin"      the payload loop never ends: r.Read keeps returning       *)
(*               (0, err2) and the loop tests err, which is nil            *)
(*   "panic"     make([]byte, n) with n < 0, or p.body[len(p.body)-2:]     *)
(*               with len(p.body) < 2                                      *)
(* rest is what the reader still holds afterwards.                         *)
ReadFrom(s, atEnd) ==
    LET short(n) == IF atEnd
                    THEN [st |-> "transport", msg |-> "EOF", n |-> n, p |-> NoPkt,
                          rest |-> <<>>]
                    ELSE [st |-> "blocked", msg |-> "", n |-> n, p |-> NoPkt,
                          rest |-> s]
    IN
    IF Len(s) < 4 THEN short(0)
    ELSE LET size == GetLE32(Take(s, 4)) IN
    IF tooSmall(size)
    THEN [st |-> "malformed", msg |-> "size too small", n |-> 4,
          p |-> [NoPkt EXCEPT !.Size = size], rest |-> Drop(s, 4)]
    ELSE IF Len(s) < 8 THEN short(4)
    ELSE IF Len(s) < 12 THEN short(8)
    ELSE LET id == GetLE32(SubSeq(s, 5, 8))
             ty == GetLE32(SubSeq(s, 9, 12))
             want == payloadLen(size)
             have == Len(s) - 12
         IN
    IF want < 0 \/ (want < 2 /\ have >= want)
    THEN [st |-> "panic", msg |-> "", n |-> 12,
          p |-> [Type |-> ty, Size |-> size, ID |-> id, body |-> <<>>],
          rest |-> Drop(s, 12)]
    ELSE IF have < want
    THEN IF atEnd
         THEN [st |-> "spin", msg |-> "", n |-> 12 + have,
               p |-> [Type |-> ty, Size |-> size, ID |-> id, body |-> Drop(s, 12)],
               rest |-> <<>>]
         ELSE [st |-> "blocked", msg |-> "", n |-> 12, p |-> NoPkt, rest |-> s]
    ELSE LET raw == SubSeq(s, 13, 12 + want)
             rest == Drop(s, 12 + want)
         IN
    IF SubSeq(raw, want - 1, want) # <<0, 0>>
    THEN [st |-> "malformed", msg |-> "invalid trailer", n |-> 12 + want,
          p |-> [Type |-> ty, Size |-> size, ID |-> id, body |-> raw],
          rest |-> rest]
    ELSE [st |-> "ok", msg |-> "", n |-> 12 + want,
          p |-> [Type |-> ty, Size |-> size, ID |-> id, body |-> Take(raw, want - 2)],
          rest |-> rest]

----------------------------------------------------------------------------
(* Cmd.String: fmt.Sprintln puts one space between operands and appends a  *)
(* newline; strings.TrimSuffix removes one trailing "\n".  The verb and   *)
(* the arguments are byte strings (a string operand prints as itself).     *)
SP == <<32>>
NL == <<10>>

RECURSIVE Sprintln(_)
Sprintln(ops) ==
    IF ops = <<>> THEN NL
    ELSE IF Len(ops) = 1 THEN ops[1] \o NL
    ELSE ops[1] \o SP \o Sprintln(Tail(ops))

TrimSuffixNone(s, suffix) == s

TrimSuffix(s, suffix) ==
    IF Len(s) >= Len(suffix) /\ SubSeq(s, Len(s) - Len(suffix) + 1, Len(s)) = suffix
    THEN Take(s, Len(s) - Len(suffix))
    ELSE s

NewCmd(verb) == [cmd |-> verb, args |-> <<>>]
WithArgs(c, args) == [c EXCEPT !.args = args]
CmdString(c) == TrimSuffix(Sprintln(<<c.cmd>> \o c.args), NL)

(* "for _, r := range body": the runes of a string.  A byte that starts no *)
(* valid UTF-8 encoding yields utf8.RuneError (0xFFFD) and a width of 1.   *)
IsCont(b) == b >= 128 /\ b <= 191

DecodeRuneAt(s, i) ==
    LET b0 == s[i]
        n == Len(s) - i + 1
        bad == [r |-> 65533, w |-> 1]
    IN  IF b0 < 128 THEN [r |-> b0, w |-> 1]
        ELSE IF b0 >= 194 /\ b0 <= 223
        THEN IF n >= 2 /\ IsCont(s[i + 1])
             THEN [r |-> (b0 - 192) * 64 + (s[i + 1] - 128), w |-> 2]
             ELSE bad
        ELSE IF b0 >= 224 /\ b0 <= 239
        THEN LET lo == IF b0 = 224 THEN 160 ELSE 128
                 hi == IF b0 = 237 THEN 159 ELSE 191
             IN  IF n >= 3 /\ s[i + 1] >= lo /\ s[i + 1] <= hi /\ IsCont(s[i + 2])
                 THEN [r |-> (b0 - 224) * 4096 + (s[i + 1] - 128) * 64
                             + (s[i + 2] - 128), w |-> 3]
                 ELSE bad
        ELSE IF b0 >= 240 /\ b0 <= 244
        THEN LET lo == IF b0 = 240 THEN 144 ELSE 128
                 hi == IF b0 = 244 THEN 143 ELSE 191
             IN  IF n >= 4 /\ s[i + 1] >= lo /\ s[i + 1] <= hi
                    /\ IsCont(s[i + 2]) /\ IsCont(s[i + 3])
                 THEN [r |-> (b0 - 240) * 262144 + (s[i + 1] - 128) * 4096
                             + (s[i + 2] - 128) * 64 + (s[i + 3] - 128), w |-> 4]
                 ELSE bad
        ELSE bad

(* ExecCmd's validation loop: TRUE iff some rune of body is >= 0x80.       *)
RECURSIVE NonASCIIFrom(_, _)
NonASCIIFrom(s, i) ==
    IF i > Len(s) THEN FALSE
    ELSE LET d == DecodeRuneAt(s, i)
         IN  IF d.r >= 128 THEN TRUE ELSE NonASCIIFrom(s, i + d.w)

NeverNonASCII(body) == FALSE

NonASCII(body) == NonASCIIFrom(body, 1)

----------------------------------------------------------------------------
(* Bounds of the model and the values the environment draws from.          *)
MaxCmds == 2        \* ExecCmd calls per behaviour
MaxSent == 4        \* frames the peer sends per behaviour
MaxFrames == 2      \* frames per behaviour of the codec harness
MaxArgs == 2        \* arguments of a WithArgs call of the Cmd harness

PW == <<112>>
BodyA == <<116>>
BodyB == <<109, 0>>

OptionLists ==
    { <<>>, <<"Password">>, <<"DisableMultiPacket">>,
      <<"Timeout", "Password", "DisableMultiPacket">>, <<"Password", "nil">> }

Cmds ==
    { WithArgs(NewCmd(<<101>>), << <<116>> >>),
      NewCmd(<<195, 169>>),
      WithArgs(NewCmd(<<65>>), << <<255>> >>) }

(* The packets the peer sends: responseValue packets with any of the       *)
(* bodies, packets of the other types with an empty body.                  *)
ServerIDs == {0, 1, 2}
ServerBodies == {<<>>, responseBody, BodyA, BodyB}
ServerPkts ==
    { newPkt(responseValue, id, b) : id \in ServerIDs, b \in ServerBodies }
    \cup { newPkt(t, id, <<>>) : t \in {authResponse, auth}, id \in ServerIDs }

(* Frames that are not what WriteTo produces: a size below 10, a payload   *)
(* that does not end in two zero bytes.                                    *)
RawFrames ==
    { PutLE32(9) \o PutLE32(0) \o PutLE32(0) \o <<0>>,
      PutLE32(11) \o PutLE32(0) \o PutLE32(0) \o <<0, 0, 1>> }

(* Frames cut short by the end of the peer's stream: inside the size, the  *)
(* id or type, and the payload.                                            *)
TruncatedFrames ==
    { Take(WriteTo(newPkt(responseValue, 0, BodyA)), keep) : keep \in {6, 13} }

----------------------------------------------------------------------------
(* An error's text: the reason, and the packet id or body it formats in.   *)
Msg(text, id, body) == [text |-> text, id |-> id, body |-> body]
NoMsg == Msg("", 0, <<>>)

(* What an operation returned: the error (err, msg) and the response.      *)
Ret(op, err, msg, resp) == [op |-> op, err |-> err, msg |-> msg, resp |-> resp]

(* The operation has not returned yet.                                     *)
Running(op) == Ret(op, "running", NoMsg, <<>>)

(* The options of NewClient, applied in order to c = &Client{} with        *)
(* c.read = c.readMulti, c.write = c.writeMulti.                           *)
RECURSIVE ApplyOptions(_, _)
ApplyOptions(c, options) ==
    IF options = <<>> THEN c
    ELSE LET f == Head(options) IN
         IF f = "nil" THEN [c EXCEPT !.err = "ErrNilOption"]
         ELSE IF f = "Password" THEN ApplyOptions([c EXCEPT !.pwd = PW], Tail(options))
         ELSE IF f = "DisableMultiPacket"
              THEN ApplyOptions([c EXCEPT !.multi = FALSE], Tail(options))
         ELSE ApplyOptions(c, Tail(options))

(* writePkt on the client state c = [reqID, out, err]: the packet takes    *)
(* c.reqID, the counter advances, then setDeadline and WriteTo.  wok says  *)
(* whether conn.Write succeeds; a failed Write, and a setDeadline on a     *)
(* closed connection, leave no bytes on the connection.                    *)
writePktIncOnSuccess(c, isClosed, pktType, body, wok) ==
    LET p == newPkt(pktType, c.reqID, body)
    IN  IF isClosed \/ ~wok
        THEN [reqID |-> c.reqID, out |-> c.out, err |-> "transport"]
        ELSE [reqID |-> Inc32(c.reqID), out |-> c.out \o WriteTo(p), err |-> "nil"]

writePkt(c, isClosed, pktType, body, wok) ==
    LET p == newPkt(pktType, c.reqID, body)
    IN  IF isClosed \/ ~wok
        THEN [reqID |-> Inc32(c.reqID), out |-> c.out, err |-> "transport"]
        ELSE [reqID |-> Inc32(c.reqID), out |-> c.out \o WriteTo(p), err |-> "nil"]

(* writeMulti: the packet, then an empty responseValue packet.             *)
writeMultiSentinelFirst(c, isClosed, pktType, body, w1, w2) ==
    LET a == writePkt(c, isClosed, responseValue, <<>>, w1)
    IN  IF a.err # "nil" THEN a
        ELSE writePkt(a, isClosed, pktType, body, w2)

writeMulti(c, isClosed, pktType, body, w1, w2) ==
    LET a == writePkt(c, isClosed, pktType, body, w1)
    IN  IF a.err # "nil" THEN a
        ELSE writePkt(a, isClosed, responseValue, <<>>, w2)

(* c.write *)
writeAlwaysSingle(c, isMulti, isClosed, pktType, body, w1, w2) ==
    writePkt(c, isClosed, pktType, body, w1)

write(c, isMulti, isClosed, pktType, body, w1, w2) ==
    IF isMulti THEN writeMulti(c, isClosed, pktType, body, w1, w2)
    ELSE writePkt(c, isClosed, pktType, body, w1)

----------------------------------------------------------------------------
(* auth, after its first readPkt returned p: "fail" is ErrAuthFailure,     *)
(* "more" the second readPkt, "ok" a nil error.                            *)
authFirstNoEcho(p) ==
    IF p.ID # 0 THEN "fail"
    ELSE IF p.Type # authResponse THEN "fail"
    ELSE "ok"

authFirstAnyType(p) ==
    IF p.ID # 0 THEN "fail"
    ELSE IF p.Type = responseValue THEN "more"
    ELSE "ok"

authFirst(p) ==
    IF p.ID # 0 THEN "fail"
    ELSE IF p.Type = responseValue THEN "more"
    ELSE IF p.Type # authResponse THEN "fail"
    ELSE "ok"

(* auth, after its second readPkt returned p.                              *)
authSecondAnyID(p) ==
    IF p.Type # authResponse THEN "fail" ELSE "ok"

authSecond(p) ==
    IF p.ID # 0 \/ p.Type # authResponse THEN "fail" ELSE "ok"

(* readSingle, after readPkt returned p.                                   *)
readSingleAnyID(p, expID) == Ret("ExecCmd", "nil", NoMsg, p.body)

readSingle(p, expID) ==
    IF p.ID # expID
    THEN Ret("ExecCmd", "ErrMalformedResponse",
             Msg("unexpected packet id", p.ID, <<>>), <<>>)
    ELSE Ret("ExecCmd", "nil", NoMsg, p.body)

(* One pass of readMulti's loop, after readPkt returned p, with the locals *)
(* cnt = c and buf = b: either the call returns ret, or the loop goes on   *)
(* with the new cnt and buf.                                               *)
Return(ret) == [done |-> TRUE, ret |-> ret, cnt |-> 0, buf |-> <<>>]
Continue(c, b) ==
    [done |-> FALSE, ret |-> Ret("ExecCmd", "nil", NoMsg, <<>>), cnt |-> c, buf |-> b]
Malformed(msg) == Return(Ret("ExecCmd", "ErrMalformedResponse", msg, <<>>))

(* "p.Type != responseValue" *)
wrongTypeNever(p) == FALSE

wrongType(p) == p.Type # responseValue

(* "switch p.ID": the case taken.                                          *)
switchIDLoose(id, expID) ==
    IF id = Inc32(expID) THEN "expectedID + 1" ELSE "expectedID"

switchID(id, expID) ==
    IF id = expID THEN "expectedID"
    ELSE IF id = Inc32(expID) THEN "expectedID + 1"
    ELSE "default"

(* "buf.Write(p.body)": the buffer afterwards.                             *)
bufWriteFront(b, body) == body \o b

bufWrite(b, body) == b \o body

(* "cnt++" *)
cntIncTwice(c) == c + 2

cntInc(c) == c + 1

(* "len(p.body) != 0" *)
nonEmptyNever(body) == FALSE

nonEmpty(body) == Len(body) # 0

(* "bytes.Equal(p.body, responseBody)" *)
isResponseBodyAlways(body) == TRUE

isResponseBody(body) == body = responseBody

readMultiAdjacent(p, expID, c, b) ==
    IF wrongType(p) THEN Malformed(Msg("unexpected type", 0, <<>>))
    ELSE LET case == switchID(p.ID, expID) IN
    IF case = "expectedID"
    THEN IF c = 0 THEN Continue(c, bufWrite(b, p.body))
         ELSE Malformed(Msg("unexpected packet id", p.ID, <<>>))
    ELSE IF case = "expectedID + 1"
    THEN LET c1 == cntInc(c) IN
         IF c1 = 1
         THEN IF nonEmpty(p.body)
              THEN Malformed(Msg("non-empty body", 0, <<>>))
              ELSE Continue(c1, b)
         ELSE IF c1 = 2
         THEN IF ~isResponseBody(p.body)
              THEN Malformed(Msg("unexpected body", 0, p.body))
              ELSE Return(Ret("ExecCmd", "nil", NoMsg, b))
         ELSE Continue(c1, b)
    ELSE Malformed(Msg("unexpected packet id", p.ID, <<>>))

readMulti(p, expID, c, b) ==
    IF wrongType(p) THEN Malformed(Msg("unexpected type", 0, <<>>))
    ELSE LET case == switchID(p.ID, expID) IN
    IF case = "expectedID" THEN Continue(c, bufWrite(b, p.body))
    ELSE IF case = "expectedID + 1"
    THEN LET c1 == cntInc(c) IN
         IF c1 = 1
         THEN IF nonEmpty(p.body)
              THEN Malformed(Msg("non-empty body", 0, <<>>))
              ELSE Continue(c1, b)
         ELSE IF c1 = 2
         THEN IF ~isResponseBody(p.body)
              THEN Malformed(Msg("unexpected body", 0, p.body))
              ELSE Return(Ret("ExecCmd", "nil", NoMsg, b))
         ELSE Continue(c1, b)
    ELSE Malformed(Msg("unexpected packet id", p.ID, <<>>))

(* readPkt's error for a ReadFrom that did not decode a packet.            *)
readErr(op, r) ==
    IF r.st = "malformed"
    THEN Ret(op, "ErrMalformedResponse", Msg(r.msg, 0, <<>>), <<>>)
    ELSE Ret(op, "transport", Msg(r.msg, 0, <<>>), <<>>)

----------------------------------------------------------------------------
Init ==
    /\ pwd = <<>>
    /\ multi = TRUE
    /\ reqID = 0
    /\ pc = "new"
    /\ expectedID = 0
    /\ buf = <<>>
    /\ cnt = 0
    /\ got = <<>>
    /\ result = Ret("none", "nil", NoMsg, <<>>)
    /\ closed = FALSE
    /\ out = <<>>
    /\ stream = <<>>
    /\ eof = FALSE
    /\ sent = 0
    /\ ncmd = 0
    /\ desync = FALSE
    /\ tx = <<>>
    /\ rx = <<>>
    /\ callers = <<>>
    /\ command = NewCmd(<<>>)

(* NewClient: the options, the dial, and auth up to its first readPkt.     *)
NewClient(options, dialOK, w) ==
    /\ pc = "new"
    /\ LET c == ApplyOptions([pwd |-> <<>>, multi |-> TRUE, err |-> "nil"], options)
       IN
       IF c.err # "nil"
       THEN /\ pc' = "failed"
            /\ result' = Ret("NewClient", c.err, NoMsg, <<>>)
            /\ UNCHANGED <<pwd, multi, reqID, out, closed>>
       ELSE IF ~dialOK
       THEN /\ pc' = "failed"
            /\ result' = Ret("NewClient", "transport", Msg("dial", 0, <<>>), <<>>)
            /\ UNCHANGED <<pwd, multi, reqID, out, closed>>
       ELSE /\ pwd' = c.pwd
            /\ multi' = c.multi
            /\ IF c.pwd = <<>>
               THEN /\ pc' = "ready"
                    /\ result' = Ret("NewClient", "nil", NoMsg, <<>>)
                    /\ UNCHANGED <<reqID, out, closed>>
               ELSE LET a == writePkt([reqID |-> reqID, out |-> out], FALSE,
                                      auth, c.pwd, w)
                    IN  /\ reqID' = a.reqID
                        /\ out' = a.out
                        /\ IF a.err # "nil"
                           THEN /\ pc' = "failed"
                                /\ closed' = TRUE
                                /\ result' = Ret("NewClient", a.err,
                                                 Msg("write", 0, <<>>), <<>>)
                           ELSE /\ pc' = "auth1"
                                /\ result' = Running("NewClient")
                                /\ UNCHANGED closed
    /\ got' = <<>>
    /\ UNCHANGED <<expectedID, buf, cnt, stream, eof, sent, ncmd,
                   desync, tx, rx, callers, command>>

(* auth's first readPkt and the checks on its packet.                      *)
AuthRead1 ==
    /\ pc = "auth1"
    /\ LET r == ReadFrom(stream, eof) IN
       /\ r.st # "blocked"
       /\ stream' = r.rest
       /\ IF r.st = "spin"
          THEN pc' = "spin" /\ UNCHANGED <<got, result, closed>>
          ELSE IF r.st # "ok"
          THEN /\ pc' = "failed"
               /\ closed' = TRUE
               /\ result' = readErr("NewClient", r)
               /\ got' = <<>>
          ELSE /\ got' = IF authFirst(r.p) = "more" THEN Append(got, r.p) ELSE <<>>
               /\ LET d == authFirst(r.p) IN
                  IF d = "more"
                  THEN pc' = "auth2" /\ UNCHANGED <<result, closed>>
                  ELSE IF d = "ok"
                  THEN /\ pc' = "ready"
                       /\ result' = Ret("NewClient", "nil", NoMsg, <<>>)
                       /\ UNCHANGED closed
                  ELSE /\ pc' = "failed"
                       /\ closed' = TRUE
                       /\ result' = Ret("NewClient", "ErrAuthFailure", NoMsg, <<>>)
    /\ UNCHANGED <<pwd, multi, reqID, expectedID, buf, cnt, out, eof, sent, ncmd,
                   desync, tx, rx, callers, command>>

(* auth's second readPkt, after a responseValue packet.                    *)
AuthRead2 ==
    /\ pc = "auth2"
    /\ LET r == ReadFrom(stream, eof) IN
       /\ r.st # "blocked"
       /\ stream' = r.rest
       /\ IF r.st = "spin"
          THEN pc' = "spin" /\ UNCHANGED <<got, result, closed>>
          ELSE IF r.st # "ok"
          THEN /\ pc' = "failed"
               /\ closed' = TRUE
               /\ result' = readErr("NewClient", r)
               /\ got' = <<>>
          ELSE /\ got' = <<>>
               /\ IF authSecond(r.p) = "ok"
                  THEN /\ pc' = "ready"
                       /\ result' = Ret("NewClient", "nil", NoMsg, <<>>)
                       /\ UNCHANGED closed
                  ELSE /\ pc' = "failed"
                       /\ closed' = TRUE
                       /\ result' = Ret("NewClient", "ErrAuthFailure", NoMsg, <<>>)
    /\ UNCHANGED <<pwd, multi, reqID, expectedID, buf, cnt, out, eof, sent, ncmd,
                   desync, tx, rx, callers, command>>

(* ExecCmd up to the return of c.write: cmd.String(), the ASCII check,     *)
(* expectedID := c.reqID, and the write of the mode.                       *)
ExecCmd(cmd, w1, w2) ==
    /\ pc = "ready"
    /\ ncmd < MaxCmds
    /\ ncmd' = ncmd + 1
    /\ got' = <<>>
    /\ LET body == CmdString(cmd) IN
       IF NonASCII(body)
       THEN /\ result' = Ret("ExecCmd", "ErrNonASCII", NoMsg, <<>>)
            /\ UNCHANGED <<pc, expectedID, reqID, out>>
       ELSE LET a == write([reqID |-> reqID, out |-> out], multi, closed,
                           execCommand, body, w1, w2)
            IN  /\ expectedID' = reqID
                /\ reqID' = a.reqID
                /\ out' = a.out
                /\ IF a.err # "nil"
                   THEN /\ result' = Ret("ExecCmd", a.err, Msg("write", 0, <<>>), <<>>)
                        /\ UNCHANGED pc
                   ELSE /\ pc' = "read"
                        /\ result' = Running("ExecCmd")
    /\ UNCHANGED <<pwd, multi, buf, cnt, closed, stream, eof, sent,
                   desync, tx, rx, callers, command>>

(* c.read in single-packet mode: readSingle.                               *)
ExecReadSingle ==
    /\ pc = "read"
    /\ ~multi
    /\ LET r == ReadFrom(stream, eof) IN
       /\ r.st # "blocked"
       /\ stream' = r.rest
       /\ IF r.st = "spin"
          THEN pc' = "spin" /\ UNCHANGED <<got, result>>
          ELSE IF r.st # "ok"
          THEN /\ pc' = "ready"
               /\ result' = readErr("ExecCmd", r)
               /\ got' = <<>>
          ELSE /\ pc' = "ready"
               /\ got' = <<>>
               /\ result' = readSingle(r.p, expectedID)
    /\ desync' = (desync \/ result'.err = "ErrMalformedResponse")
    /\ UNCHANGED <<pwd, multi, reqID, expectedID, buf, cnt, closed, out, eof, sent,
                   ncmd, tx, rx, callers, command>>

(* c.read in multi-packet mode: one pass of readMulti's loop.              *)
ExecReadMulti ==
    /\ pc = "read"
    /\ multi
    /\ LET r == ReadFrom(stream, eof) IN
       /\ r.st # "blocked"
       /\ stream' = r.rest
       /\ IF r.st = "spin"
          THEN pc' = "spin" /\ UNCHANGED <<got, result, buf, cnt>>
          ELSE IF r.st # "ok"
          THEN /\ pc' = "ready"
               /\ result' = readErr("ExecCmd", r)
               /\ buf' = <<>>
               /\ cnt' = 0
               /\ got' = <<>>
          ELSE LET d == readMulti(r.p, expectedID, cnt, buf) IN
               /\ got' = IF d.done THEN <<>> ELSE Append(got, r.p)
               /\ buf' = d.buf
               /\ cnt' = d.cnt
               /\ IF d.done
                  THEN pc' = "ready" /\ result' = d.ret
                  ELSE UNCHANGED <<pc, result>>
    /\ desync' = (desync \/ result'.err = "ErrMalformedResponse")
    /\ UNCHANGED <<pwd, multi, reqID, expectedID, closed, out, eof, sent, ncmd, tx, rx,
                   callers, command>>

(* Client.Close, while an ExecCmd can still follow it.                     *)
Close ==
    /\ pc = "ready"
    /\ ~closed
    /\ ncmd < MaxCmds
    /\ closed' = TRUE
    /\ result' = Ret("Close", "nil", NoMsg, <<>>)
    /\ UNCHANGED <<pwd, multi, reqID, pc, expectedID, buf, cnt, got, out, stream,
                   eof, sent, ncmd,
                   desync, tx, rx, callers, command>>

----------------------------------------------------------------------------
(* The peer.                                                               *)
Connected == pc \in {"auth1", "auth2", "ready", "read", "spin"} /\ ~closed

(* The peer sends while an operation of the client is reading.             *)
Listening == pc \in {"auth1", "auth2", "read"}

CanSend ==
    /\ Connected
    /\ Listening
    /\ ~eof
    /\ sent < MaxSent
    /\ Len(stream) <= Len(WriteTo(newPkt(responseValue, 0, responseBody)))

(* The peer writes a packet, as the mock server does with pkt.WriteTo.     *)
ServerSend(p) ==
    /\ CanSend
    /\ stream' = stream \o WriteTo(p)
    /\ sent' = sent + 1
    /\ UNCHANGED <<pwd, multi, reqID, pc, expectedID, buf, cnt, got, result, closed,
                   out, eof, ncmd, desync, tx, rx, callers, command>>

(* The peer writes a frame that is no well-formed packet.                  *)
ServerSendRaw(f) ==
    /\ CanSend
    /\ stream' = stream \o f
    /\ sent' = sent + 1
    /\ UNCHANGED <<pwd, multi, reqID, pc, expectedID, buf, cnt, got, result, closed,
                   out, eof, ncmd, desync, tx, rx, callers, command>>

(* The stream ends in the middle of a frame.                               *)
ServerSendTruncated(f) ==
    /\ CanSend
    /\ stream' = stream \o f
    /\ sent' = sent + 1
    /\ eof' = TRUE
    /\ UNCHANGED <<pwd, multi, reqID, pc, expectedID, buf, cnt, got, result, closed,
                   out, ncmd, desync, tx, rx, callers, command>>

(* The stream ends between packets, while a read waits for bytes: the     *)
(* peer closes, or the deadline set by setDeadline passes.                 *)
StreamEnd ==
    /\ Connected
    /\ Listening
    /\ ~eof
    /\ ReadFrom(stream, FALSE).st = "blocked"
    /\ eof' = TRUE
    /\ UNCHANGED <<pwd, multi, reqID, pc, expectedID, buf, cnt, got, result, closed,
                   out, stream, sent, ncmd, desync, tx, rx, callers, command>>

Next ==
    \/ \E o \in OptionLists, d \in BOOLEAN, w \in BOOLEAN : NewClient(o, d, w)
    \/ AuthRead1
    \/ AuthRead2
    \/ \E c \in Cmds, w1, w2 \in BOOLEAN : ExecCmd(c, w1, w2)
    \/ ExecReadSingle
    \/ ExecReadMulti
    \/ Close
    \/ \E p \in ServerPkts : ServerSend(p)
    \/ \E f \in RawFrames : ServerSendRaw(f)
    \/ \E f \in TruncatedFrames : ServerSendTruncated(f)
    \/ StreamEnd

Spec == Init /\ [][Next]_vars

----------------------------------------------------------------------------
(* The codec on its own: frames are put on a stream one after the other    *)
(* (packets by pkt.WriteTo, as newPkt builds them, and frames that are no  *)
(* well-formed packet) and pkt.ReadFrom is applied to the stream until it  *)
(* fails.                                                                  *)
CodecTypes == {responseValue, auth}
CodecIDs == {MinInt32, -1, 258, MaxInt32}
CodecBodies == {<<>>, <<0, 0>>, responseBody, <<116, 0, 255>>}

Frame(t, id, body) == [raw |-> FALSE, t |-> t, id |-> id, body |-> body]
RawFrame(bytes) == [raw |-> TRUE, t |-> 0, id |-> 0, body |-> bytes]

(* Frames whose size field is negative.                                    *)
NegativeFrames ==
    { PutLE32(-1) \o PutLE32(0), PutLE32(MinInt32) \o PutLE32(0) \o PutLE32(0) }

CodecFrames ==
    { Frame(t, id, b) : t \in CodecTypes, id \in CodecIDs, b \in CodecBodies }
    \cup { RawFrame(f) : f \in RawFrames \cup TruncatedFrames \cup NegativeFrames }

CodecInputs == UNION { [1..n -> CodecFrames] : n \in 1..MaxFrames }

CodecInit ==
    /\ pwd = <<>>
    /\ multi = TRUE
    /\ reqID = 0
    /\ pc = "codec"
    /\ expectedID = 0
    /\ buf = <<>>
    /\ cnt = 0
    /\ got = <<>>
    /\ result = Ret("none", "nil", NoMsg, <<>>)
    /\ closed = FALSE
    /\ out = <<>>
    /\ stream = <<>>
    /\ eof = FALSE
    /\ sent = 0
    /\ ncmd = 0
    /\ desync = FALSE
    /\ tx \in CodecInputs
    /\ rx = <<>>
    /\ callers = <<>>
    /\ command = NewCmd(<<>>)

(* newPkt(t, id, body).WriteTo(w) for the next frame.                      *)
CodecWriteTo ==
    /\ pc = "codec"
    /\ ~eof
    /\ sent < Len(tx)
    /\ ~tx[sent + 1].raw
    /\ LET f == tx[sent + 1] IN stream' = stream \o WriteTo(newPkt(f.t, f.id, f.body))
    /\ sent' = sent + 1
    /\ UNCHANGED <<pwd, multi, reqID, pc, expectedID, buf, cnt, got, result, closed,
                   out, eof, ncmd, desync, tx, rx, callers, command>>

(* The next frame is bytes that WriteTo did not produce.                   *)
CodecWriteRaw ==
    /\ pc = "codec"
    /\ ~eof
    /\ sent < Len(tx)
    /\ tx[sent + 1].raw
    /\ stream' = stream \o tx[sent + 1].body
    /\ sent' = sent + 1
    /\ UNCHANGED <<pwd, multi, reqID, pc, expectedID, buf, cnt, got, result, closed,
                   out, eof, ncmd, desync, tx, rx, callers, command>>

(* The stream ends.                                                        *)
CodecEnd ==
    /\ pc = "codec"
    /\ ~eof
    /\ eof' = TRUE
    /\ UNCHANGED <<pwd, multi, reqID, pc, expectedID, buf, cnt, got, result, closed,
                   out, stream, sent, ncmd, desync, tx, rx, callers, command>>

(* p := &pkt{}; p.ReadFrom(r), until a ReadFrom fails.                     *)
CodecReadFrom ==
    /\ pc = "codec"
    /\ IF rx = <<>> THEN TRUE ELSE rx[Len(rx)].st = "ok"
    /\ LET r == ReadFrom(stream, eof) IN
       /\ r.st # "blocked"
       /\ rx' = Append(rx, r)
       /\ stream' = r.rest
    /\ UNCHANGED <<pwd, multi, reqID, pc, expectedID, buf, cnt, got, result, closed,
                   out, eof, sent, ncmd, desync, tx, callers, command>>

CodecNext == CodecWriteTo \/ CodecWriteRaw \/ CodecEnd \/ CodecReadFrom

SpecCodec == CodecInit /\ [][CodecNext]_vars

----------------------------------------------------------------------------
(* Two callers run ExecCmd on one client, each with a command of its own,  *)
(* against a peer that answers as the mock server does.  The statements of *)
(* ExecCmd and writePkt are steps of their own; "c.reqID++" is a load and  *)
(* a store.  With callers.serial the application lets a call start only    *)
(* when no other call is in progress.  Reads take whole frames.            *)
Callers == {1, 2}
CallerCmd(i) == IF i = 1 THEN NewCmd(<<97>>) ELSE NewCmd(<<98>>)

Idle(i) ==
    [pc |-> "idle", body |-> CmdString(CallerCmd(i)), expectedID |-> 0, p |-> NoPkt,
     wrote |-> NoPkt, tmp |-> 0, buf |-> <<>>, cnt |-> 0,
     ret |-> Running("ExecCmd")]

(* "p := newPkt(pktType, c.reqID, body)" *)
pktForNext(reqIDNow, t, body) == newPkt(t, Inc32(reqIDNow), body)

pktFor(reqIDNow, t, body) == newPkt(t, reqIDNow, body)

(* The packets that make up the bytes s, in order.                         *)
RECURSIVE PktsOf(_)
PktsOf(s) ==
    IF s = <<>> THEN <<>>
    ELSE LET r == ReadFrom(s, TRUE)
         IN  IF r.st = "ok" THEN <<r.p>> \o PktsOf(r.rest) ELSE <<>>

(* server.handle: the packets written in answer to the packet p.  The      *)
(* answer to a command carries the command's string.                       *)
handle(p) ==
    IF p.Type = responseValue /\ p.body = <<>>
    THEN WriteTo(newPkt(responseValue, p.ID, <<>>))
         \o WriteTo(newPkt(responseValue, p.ID, responseBody))
    ELSE WriteTo(newPkt(responseValue, p.ID, p.body))

ConcInit ==
    /\ pwd = <<>>
    /\ multi \in BOOLEAN
    /\ reqID = 0
    /\ pc = "conc"
    /\ expectedID = 0
    /\ buf = <<>>
    /\ cnt = 0
    /\ got = <<>>
    /\ result = Ret("none", "nil", NoMsg, <<>>)
    /\ closed = FALSE
    /\ out = <<>>
    /\ stream = <<>>
    /\ eof = FALSE
    /\ sent = 0
    /\ ncmd = 0
    /\ desync = FALSE
    /\ tx = <<>>
    /\ rx = <<>>
    /\ callers \in { [serial |-> b, of |-> [i \in Callers |-> Idle(i)]] : b \in BOOLEAN }
    /\ command = NewCmd(<<>>)

ConcRest == <<pwd, multi, pc, expectedID, buf, cnt, got, result, closed, eof, ncmd,
              desync, tx, rx, command>>

(* ExecCmd, "expectedID := c.reqID" (the command strings are ASCII).       *)
ConcStart(i) ==
    /\ pc = "conc"
    /\ callers.of[i].pc = "idle"
    /\ callers.serial => \A j \in Callers : callers.of[j].pc \in {"idle", "done"}
    /\ callers' = [callers EXCEPT !.of[i].expectedID = reqID, !.of[i].pc = "new1"]
    /\ UNCHANGED <<reqID, out, stream, sent>>
    /\ UNCHANGED ConcRest

(* writePkt, "p := newPkt(pktType, c.reqID, body)": the command packet,    *)
(* and in writeMulti's second writePkt the empty responseValue packet.     *)
ConcNewPkt(i) ==
    /\ pc = "conc"
    /\ callers.of[i].pc \in {"new1", "new2"}
    /\ LET l == callers.of[i]
           first == l.pc = "new1"
           p == IF first THEN pktFor(reqID, execCommand, l.body)
                ELSE pktFor(reqID, responseValue, <<>>)
       IN  callers' = [callers EXCEPT !.of[i].p = p,
                                     !.of[i].pc = IF first THEN "load1" ELSE "load2"]
    /\ UNCHANGED <<reqID, out, stream, sent>>
    /\ UNCHANGED ConcRest

(* writePkt, "c.reqID++": the load.                                        *)
ConcLoad(i) ==
    /\ pc = "conc"
    /\ callers.of[i].pc \in {"load1", "load2"}
    /\ callers' = [callers EXCEPT
                     !.of[i].tmp = reqID,
                     !.of[i].pc = IF callers.of[i].pc = "load1" THEN "store1" ELSE "store2"]
    /\ UNCHANGED <<reqID, out, stream, sent>>
    /\ UNCHANGED ConcRest

(* writePkt, "c.reqID++": the store.                                       *)
ConcStore(i) ==
    /\ pc = "conc"
    /\ callers.of[i].pc \in {"store1", "store2"}
    /\ reqID' = Inc32(callers.of[i].tmp)
    /\ callers' = [callers EXCEPT
                     !.of[i].pc = IF callers.of[i].pc = "store1" THEN "write1" ELSE "write2"]
    /\ UNCHANGED <<out, stream, sent>>
    /\ UNCHANGED ConcRest

(* writePkt, "p.WriteTo(c.conn)"; after the command packet writeMulti goes *)
(* on to its second writePkt, and after the last write ExecCmd reads.      *)
ConcWrite(i) ==
    /\ pc = "conc"
    /\ callers.of[i].pc \in {"write1", "write2"}
    /\ LET l == callers.of[i]
           first == l.pc = "write1"
       IN  /\ out' = out \o WriteTo(l.p)
           /\ callers' = [callers EXCEPT
                            !.of[i].wrote = IF first THEN l.p ELSE l.wrote,
                            !.of[i].pc = IF first /\ multi THEN "new2" ELSE "read"]
    /\ UNCHANGED <<reqID, stream, sent>>
    /\ UNCHANGED ConcRest

(* c.read(expectedID): one readPkt and what readSingle or readMulti does   *)
(* with its packet.                                                        *)
ConcRead(i) ==
    /\ pc = "conc"
    /\ callers.of[i].pc = "read"
    /\ LET l == callers.of[i]
           r == ReadFrom(stream, FALSE)
       IN  /\ r.st = "ok"
           /\ stream' = r.rest
           /\ IF multi
              THEN LET d == readMulti(r.p, l.expectedID, l.cnt, l.buf)
                   IN  callers' = [callers EXCEPT
                                     !.of[i].cnt = d.cnt,
                                     !.of[i].buf = d.buf,
                                     !.of[i].ret = IF d.done THEN d.ret ELSE l.ret,
                                     !.of[i].pc = IF d.done THEN "done" ELSE "read"]
              ELSE callers' = [callers EXCEPT
                                 !.of[i].ret = readSingle(r.p, l.expectedID),
                                 !.of[i].pc = "done"]
    /\ UNCHANGED <<reqID, out, sent>>
    /\ UNCHANGED ConcRest

(* The peer reads the next packet of the client and answers it; sent       *)
(* counts the packets it has answered.                                     *)
ConcHandle ==
    /\ pc = "conc"
    /\ LET ps == PktsOf(out)
       IN  /\ sent < Len(ps)
           /\ stream' = stream \o handle(ps[sent + 1])
           /\ sent' = sent + 1
    /\ UNCHANGED <<reqID, out, callers>>
    /\ UNCHANGED ConcRest

ConcNext ==
    \/ \E i \in Callers : ConcStart(i)
    \/ \E i \in Callers : ConcNewPkt(i)
    \/ \E i \in Callers : ConcLoad(i)
    \/ \E i \in Callers : ConcStore(i)
    \/ \E i \in Callers : ConcWrite(i)
    \/ \E i \in Callers : ConcRead(i)
    \/ ConcHandle

SpecConc == ConcInit /\ [][ConcNext]_vars

----------------------------------------------------------------------------
(* Cmd on its own: NewCmd(verb), then WithArgs and String in any order.    *)
(* The arguments are strings: an empty one, one that ends in a newline,    *)
(* one with a space inside.                                                *)
Verbs == { <<101>>, <<65, 66>>, <<115, 97, 121>> }
ArgVals == { <<116>>, <<>>, <<120, 10>>, <<109, 32, 101>> }
ArgLists == UNION { [1..n -> ArgVals] : n \in 0..MaxArgs }

CmdInit ==
    /\ pwd = <<>>
    /\ multi = TRUE
    /\ reqID = 0
    /\ pc = "cmd"
    /\ expectedID = 0
    /\ buf = <<>>
    /\ cnt = 0
    /\ got = <<>>
    /\ result = Ret("NewCmd", "nil", NoMsg, <<>>)
    /\ closed = FALSE
    /\ out = <<>>
    /\ stream = <<>>
    /\ eof = FALSE
    /\ sent = 0
    /\ ncmd = 0
    /\ desync = FALSE
    /\ tx = <<>>
    /\ rx = <<>>
    /\ callers = <<>>
    /\ command \in { NewCmd(v) : v \in Verbs }

CmdRest == <<pwd, multi, reqID, pc, expectedID, buf, cnt, got, closed, out, stream,
             eof, sent, ncmd, desync, tx, rx, callers>>

(* c.WithArgs(args...) *)
CmdWithArgs(args) ==
    /\ pc = "cmd"
    /\ command' = WithArgs(command, args)
    /\ result' = Ret("WithArgs", "nil", NoMsg, <<>>)
    /\ UNCHANGED CmdRest

(* c.String() *)
CmdStringCall ==
    /\ pc = "cmd"
    /\ result' = Ret("String", "nil", NoMsg, CmdString(command))
    /\ UNCHANGED command
    /\ UNCHANGED CmdRest

CmdNext ==
    \/ \E args \in ArgLists : CmdWithArgs(args)
    \/ CmdStringCall

SpecCmd == CmdInit /\ [][CmdNext]_vars

----------------------------------------------------------------------------
(* Properties.                                                             *)

(* What the client's next readPkt gets from the stream.                    *)
Rd == ReadFrom(stream, eof)

(* The step is a readPkt of the client that decodes the packet Rd.p: only  *)
(* the client takes bytes off the stream.                                  *)
Decoded == Rd.st = "ok" /\ stream' = Rd.rest

RECURSIVE BodiesOf(_)
BodiesOf(s) == IF s = <<>> THEN <<>> ELSE s[1].body \o BodiesOf(Tail(s))

IsRV(p, id) == p.Type = responseValue /\ p.ID = id

(* How many of the packets s carry the id.                                 *)
CountID(s, id) == Cardinality({ i \in 1..Len(s) : s[i].ID = id })

OK(op, resp) == Ret(op, "nil", NoMsg, resp)
MalformedResponse(text, id, body) ==
    Ret("ExecCmd", "ErrMalformedResponse", Msg(text, id, body), <<>>)

(* s is one or more responseValue packets with id N, then a responseValue  *)
(* packet with id N+1 and an empty body, then one with id N+1 and the      *)
(* marker as its body.                                                     *)
MultiShape(s, N) ==
    /\ Len(s) >= 3
    /\ \A i \in 1..(Len(s) - 2) : IsRV(s[i], N)
    /\ IsRV(s[Len(s) - 1], Inc32(N)) /\ s[Len(s) - 1].body = <<>>
    /\ IsRV(s[Len(s)], Inc32(N)) /\ s[Len(s)].body = responseBody

(* C1: in multi-packet mode, when the packets decoded for a command with   *)
(* id N are one or more responseValue packets with id N, then              *)
(* responseValue(N+1, empty) and responseValue(N+1, marker), ExecCmd       *)
(* returns, with no error, the bodies of the id-N packets concatenated in  *)
(* arrival order.                                                          *)
C1_Reassembly ==
    [][ (pc = "read" /\ multi /\ Decoded /\ MultiShape(Append(got, Rd.p), expectedID))
        => /\ pc' = "ready"
           /\ result' = OK("ExecCmd", BodiesOf(SubSeq(got, 1, Len(got) - 1))) ]_vars

(* Two id-N packets with different bodies and the first sentinel packet    *)
(* have been decoded, and the marker packet is next on the stream.         *)
C1_Witness ==
    /\ pc = "read" /\ multi
    /\ Len(got) = 3
    /\ got[1].body = BodyA /\ got[2].body = BodyB
    /\ buf = BodyA \o BodyB
    /\ Rd.st = "ok"
    /\ MultiShape(Append(got, Rd.p), expectedID)

(* C2: in multi-packet mode readMulti returns success only in the step     *)
(* that decodes the second packet with id N+1, whose body is the marker;   *)
(* that step takes this packet alone off the stream, and nothing is read   *)
(* from the stream once the call has returned.                             *)
C2_SuccessOnlyAtMarker ==
    [][ /\ (pc = "read" /\ multi /\ pc' = "ready" /\ result'.err = "nil")
           => /\ Decoded
              /\ IsRV(Rd.p, Inc32(expectedID))
              /\ Rd.p.body = responseBody
              /\ CountID(got, Inc32(expectedID)) = 1
        /\ pc = "ready" => stream' = stream ]_vars

(* A multi-packet ExecCmd has returned success and a frame that followed   *)
(* the marker packet is still on the stream.                               *)
C2_Witness ==
    /\ pc = "ready" /\ multi
    /\ result.op = "ExecCmd" /\ result.err = "nil"
    /\ stream # <<>>

(* C3: with a password, the handshake succeeds on [responseValue(0),       *)
(* authResponse(0)], after two packets, and on [authResponse(0)] alone,    *)
(* after one packet and without a second read.                             *)
C3_HandshakeAccepts ==
    [][ /\ (pc = "auth1" /\ Decoded /\ Rd.p.ID = 0 /\ Rd.p.Type = authResponse)
           => /\ pwd # <<>> /\ got = <<>>
              /\ pc' = "ready" /\ result' = OK("NewClient", <<>>)
        /\ (pc = "auth1" /\ Decoded /\ Rd.p.ID = 0 /\ Rd.p.Type = responseValue)
           => /\ pc' = "auth2" /\ got' = <<Rd.p>>
        /\ (pc = "auth2" /\ Decoded /\ Rd.p.ID = 0 /\ Rd.p.Type = authResponse)
           => /\ pwd # <<>> /\ Len(got) = 1
              /\ pc' = "ready" /\ result' = OK("NewClient", <<>>) ]_vars

(* The handshake has succeeded after the peer sent two frames, both of     *)
(* them read: the echo and the result.                                     *)
C3_Witness ==
    /\ pc = "ready" /\ ncmd = 0 /\ pwd # <<>>
    /\ result = OK("NewClient", <<>>)
    /\ sent = 2 /\ stream = <<>>

(* C4: the handshake fails with ErrAuthFailure whenever a decoded          *)
(* handshake packet has an id other than 0, or the first packet is neither *)
(* responseValue nor authResponse, or the packet after a responseValue     *)
(* echo has an id other than 0 or a type other than authResponse.          *)
AuthFailure == Ret("NewClient", "ErrAuthFailure", NoMsg, <<>>)

C4_HandshakeRejects ==
    [][ /\ (pc \in {"auth1", "auth2"} /\ Decoded /\ Rd.p.ID # 0)
           => (pc' = "failed" /\ result' = AuthFailure)
        /\ (pc = "auth1" /\ Decoded /\ Rd.p.Type \notin {responseValue, authResponse})
           => (pc' = "failed" /\ result' = AuthFailure)
        /\ (pc = "auth2" /\ Decoded /\ (Rd.p.ID # 0 \/ Rd.p.Type # authResponse))
           => (pc' = "failed" /\ result' = AuthFailure) ]_vars

(* The handshake has failed on the packet that followed the echo.          *)
C4_Witness ==
    /\ pc = "failed" /\ result = AuthFailure
    /\ sent = 2 /\ stream = <<>>

(* C5: ExecCmd on a command whose string has a byte >= 0x80 returns        *)
(* ErrNonASCII, writes nothing, reads nothing and leaves the request-id    *)
(* counter unchanged, in both modes.                                       *)
HasHighByte(s) == \E i \in 1..Len(s) : s[i] >= 128

C5_NonASCIIRejected ==
    [][ \A c \in {d \in Cmds : HasHighByte(CmdString(d))}, w1, w2 \in BOOLEAN :
          (pc = "ready" /\ ncmd' = ncmd + 1 /\ ExecCmd(c, w1, w2))
          => /\ result' = Ret("ExecCmd", "ErrNonASCII", NoMsg, <<>>)
             /\ pc' = "ready"
             /\ out' = out
             /\ stream' = stream
             /\ reqID' = reqID ]_vars

(* ExecCmd has returned ErrNonASCII in single-packet mode, after a         *)
(* handshake that wrote the auth packet.                                   *)
C5_Witness ==
    /\ result = Ret("ExecCmd", "ErrNonASCII", NoMsg, <<>>)
    /\ ~multi /\ reqID = 1 /\ ncmd = 1

(* C6: in single-packet mode an ExecCmd whose write succeeds writes one    *)
(* execCommand packet with the current counter value and advances the      *)
(* counter by one; its first decoded packet ends the call, which returns   *)
(* the packet's body if the id is the request's and a malformed-response   *)
(* error otherwise.                                                        *)
C6_SinglePacket ==
    [][ /\ \A c \in Cmds, w1, w2 \in BOOLEAN :
             (~multi /\ ExecCmd(c, w1, w2) /\ pc' = "read")
             => /\ out' = out \o WriteTo(newPkt(execCommand, reqID, CmdString(c)))
                /\ reqID' = Inc32(reqID)
                /\ expectedID' = reqID
        /\ (pc = "read" /\ ~multi /\ Decoded)
           => /\ got = <<>>
              /\ pc' = "ready"
              /\ result' = IF Rd.p.ID = expectedID
                           THEN OK("ExecCmd", Rd.p.body)
                           ELSE MalformedResponse("unexpected packet id", Rd.p.ID, <<>>)
        ]_vars

(* A single-packet ExecCmd has returned a non-empty body.                  *)
C6_Witness ==
    /\ pc = "ready" /\ ~multi
    /\ result = OK("ExecCmd", BodyA)

(* C7, as stated: in multi-packet mode any decoded packet whose id is      *)
(* neither N nor N+1 fails with malformed-response "unexpected packet id". *)
C7_AnyPacket ==
    [][ (pc = "read" /\ multi /\ Decoded
         /\ Rd.p.ID \notin {expectedID, Inc32(expectedID)})
        => /\ pc' = "ready"
           /\ result' = MalformedResponse("unexpected packet id", Rd.p.ID, <<>>) ]_vars

(* C7, amended: in multi-packet mode any decoded responseValue packet      *)
(* whose id is neither N nor N+1 fails with malformed-response             *)
(* "unexpected packet id".                                                 *)
C7_UnexpectedID ==
    [][ (pc = "read" /\ multi /\ Decoded /\ Rd.p.Type = responseValue
         /\ Rd.p.ID \notin {expectedID, Inc32(expectedID)})
        => /\ pc' = "ready"
           /\ result' = MalformedResponse("unexpected packet id", Rd.p.ID, <<>>) ]_vars

(* A multi-packet ExecCmd has failed on a packet id, after packets of the  *)
(* response were accumulated.                                              *)
C7_Witness ==
    /\ pc = "ready" /\ multi
    /\ result.err = "ErrMalformedResponse"
    /\ result.msg.text = "unexpected packet id"
    /\ sent >= 2 /\ stream = <<>>

(* C8: in multi-packet mode the first responseValue packet with id N+1     *)
(* must have an empty body, else the call fails with malformed-response    *)
(* "non-empty body"; the second must have the marker as its body, else the *)
(* call fails with a malformed-response error that quotes the body; a      *)
(* failing call returns no accumulated response.                           *)
C8_SentinelPair ==
    [][ (pc = "read" /\ multi /\ Decoded /\ IsRV(Rd.p, Inc32(expectedID)))
        => IF CountID(got, Inc32(expectedID)) = 0
           THEN IF Rd.p.body # <<>>
                THEN /\ pc' = "ready"
                     /\ result' = MalformedResponse("non-empty body", 0, <<>>)
                ELSE pc' = "read" /\ buf' = buf
           ELSE /\ CountID(got, Inc32(expectedID)) = 1
                /\ pc' = "ready"
                /\ result' = IF Rd.p.body # responseBody
                             THEN MalformedResponse("unexpected body", 0, Rd.p.body)
                             ELSE OK("ExecCmd", buf) ]_vars

(* A response has been accumulated, the first sentinel packet was          *)
(* accepted, and the next packet has id N+1 and a body that is not the     *)
(* marker.                                                                 *)
C8_Witness ==
    /\ pc = "read" /\ multi
    /\ buf # <<>>
    /\ CountID(got, Inc32(expectedID)) = 1
    /\ Rd.st = "ok" /\ IsRV(Rd.p, Inc32(expectedID))
    /\ Rd.p.body \notin {<<>>, responseBody}

(* C9: in multi-packet mode a decoded packet whose type is not             *)
(* responseValue makes ExecCmd fail with malformed-response "unexpected    *)
(* type", whatever its id and whatever was accumulated.                    *)
C9_UnexpectedType ==
    [][ (pc = "read" /\ multi /\ Decoded /\ Rd.p.Type # responseValue)
        => /\ pc' = "ready"
           /\ result' = MalformedResponse("unexpected type", 0, <<>>) ]_vars

(* A response has been accumulated and the next packet has the id of the   *)
(* command but another type.                                               *)
C9_Witness ==
    /\ pc = "read" /\ multi
    /\ buf # <<>> /\ Len(got) >= 2
    /\ Rd.st = "ok" /\ Rd.p.Type # responseValue /\ Rd.p.ID = expectedID

(* C10: a packet built by newPkt(type, id, body) and written by WriteTo is *)
(* read back by ReadFrom with the same type, id and body, and Size =       *)
(* len(body) + 10.  (The i-th ReadFrom reads back the i-th frame when the  *)
(* frames before it were written by WriteTo too.)                          *)
C10_RoundTrip ==
    \A i \in 1..Len(rx) :
        (i <= sent /\ \A j \in 1..i : ~tx[j].raw)
        => /\ rx[i].st = "ok"
           /\ rx[i].p.Type = tx[i].t
           /\ rx[i].p.ID = tx[i].id
           /\ rx[i].p.body = tx[i].body
           /\ rx[i].p.Size = Len(tx[i].body) + 10

(* Two packets written back to back were read back: one with the smallest  *)
(* id and an empty body, one with a body of zero bytes.                    *)
C10_Witness ==
    /\ pc = "codec"
    /\ Len(rx) = 2 /\ sent = 2
    /\ ~tx[1].raw /\ ~tx[2].raw
    /\ rx[1].st = "ok" /\ rx[1].p.ID = MinInt32 /\ rx[1].p.body = <<>>
    /\ rx[2].st = "ok" /\ rx[2].p.ID = 258 /\ rx[2].p.body = <<0, 0>>

(* C11: ReadFrom validates the framing.  A size field below 10, negative   *)
(* values included, gives the malformed-response error "size too small"    *)
(* with the 4 size bytes consumed and no more; a payload that is there     *)
(* in full and does not end in 0x00 0x00 gives the malformed-response      *)
(* error "invalid trailer"; a decoded packet has Size >= 10 and            *)
(* len(body) = Size - 10; no call panics.                                  *)
C11_FramingValidated ==
    [][ rx' # rx =>
        LET r == rx'[Len(rx')]
            size == GetLE32(Take(stream, 4))
            full == Len(stream) >= 4 /\ size >= 10 /\ Len(stream) >= size + 4
        IN  /\ r.st # "panic"
            /\ (Len(stream) >= 4 /\ size < 10)
                 => /\ r.st = "malformed" /\ r.msg = "size too small"
                    /\ r.n = 4
                    /\ stream' = Drop(stream, 4)
            /\ (full /\ SubSeq(stream, size + 3, size + 4) # <<0, 0>>)
                 => r.st = "malformed" /\ r.msg = "invalid trailer"
            /\ r.st = "ok"
                 => /\ r.p.Size >= 10
                    /\ Len(r.p.body) = r.p.Size - 10
                    /\ r.p.Size = size ]_vars

(* After a packet was decoded, a frame with the size field -1 has been     *)
(* refused and its bytes after the size are still on the stream.           *)
C11_Witness ==
    /\ pc = "codec"
    /\ Len(rx) = 2
    /\ rx[1].st = "ok"
    /\ rx[2].st = "malformed" /\ rx[2].msg = "size too small"
    /\ rx[2].p.Size = -1 /\ rx[2].n = 4
    /\ stream = PutLE32(0)

(* C12: ReadFrom terminates.  A readPkt that meets the end of the stream   *)
(* (the peer closed, or the deadline passed) before it has a whole frame   *)
(* returns: the operation ends with the transport error.                   *)
C12_DecodeTerminates ==
    [][ (Listening /\ eof /\ Rd.st \notin {"ok", "malformed"})
        => (pc' \in {"ready", "failed"} /\ result'.err = "transport") ]_vars

(* x + n on an int32.                                                      *)
RECURSIVE Add32(_, _)
Add32(x, n) == IF n = 0 THEN x ELSE Add32(Inc32(x), n - 1)

(* The step is a NewClient or an ExecCmd that returns a write error.       *)
WriteFailed ==
    /\ pc \in {"new", "ready"}
    /\ pc = "new" \/ ncmd' # ncmd
    /\ result'.msg.text = "write"

(* C13, as stated: the counter equals the number of packets written to     *)
(* the connection, and the i-th packet written carries the id i - 1.       *)
C13_CounterIsPackets ==
    LET ps == PktsOf(out)
    IN  /\ reqID = Len(ps)
        /\ \A i \in 1..Len(ps) : ps[i].ID = i - 1

(* C13, amended: the counter starts at 0 and advances by one for each call *)
(* of writePkt, whether its write succeeds or fails: a step that writes k  *)
(* packets gives them the ids counter, counter + 1, ... and leaves the     *)
(* counter at counter + k, or at counter + k + 1 when it ends on a failed  *)
(* write.                                                                  *)
C13_CounterIsWriteCalls ==
    /\ [](pc = "new" => (reqID = 0 /\ out = <<>>))
    /\ [][ /\ Len(out') >= Len(out)
           /\ Take(out', Len(out)) = out
           /\ LET new == PktsOf(Drop(out', Len(out)))
                  k == Len(new)
              IN  /\ out' # out => k >= 1
                  /\ \A i \in 1..k : new[i].ID = Add32(reqID, i - 1)
                  /\ reqID' = Add32(reqID, k + (IF WriteFailed THEN 1 ELSE 0)) ]_vars

(* In multi-packet mode the write of the empty packet has failed: one      *)
(* packet is on the connection and the counter is 2.                       *)
C13_Witness ==
    /\ multi /\ pc = "ready"
    /\ result.op = "ExecCmd" /\ result.msg.text = "write"
    /\ reqID = 2
    /\ Len(PktsOf(out)) = 1

(* The bytes an ExecCmd of the mode writes for the command string body     *)
(* when the counter is n.                                                  *)
Written(isMulti, n, body) ==
    WriteTo(newPkt(execCommand, n, body))
    \o (IF isMulti THEN WriteTo(newPkt(responseValue, Inc32(n), <<>>)) ELSE <<>>)

(* C14, as stated: once an ExecCmd has returned a malformed-response       *)
(* error, no ExecCmd of the client writes a packet or returns a response   *)
(* without an error.                                                       *)
C14_MalformedIsTerminal ==
    [][ desync => /\ out' = out
                  /\ ~(pc = "read" /\ pc' = "ready" /\ result'.err = "nil") ]_vars

(* C14, amended: a malformed-response error ends the ExecCmd that met it   *)
(* and changes nothing else: the connection stays open and the counter     *)
(* and the bytes written stay as they are; a later ExecCmd of the client   *)
(* whose writes succeed writes its packets as any other does and goes on   *)
(* to read the response.                                                   *)
C14_MalformedEndsCallOnly ==
    [][ /\ (pc = "read" /\ result'.err = "ErrMalformedResponse")
           => /\ pc' = "ready"
              /\ result'.resp = <<>>
              /\ closed' = closed /\ out' = out /\ reqID' = reqID
        /\ \A c \in {d \in Cmds : ~HasHighByte(CmdString(d))}, w \in BOOLEAN :
             (desync /\ pc = "ready" /\ ~closed /\ ExecCmd(c, TRUE, w)
              /\ (multi => w))
             => /\ out' = out \o Written(multi, reqID, CmdString(c))
                /\ pc' = "read" ]_vars

(* After an ExecCmd that returned a malformed-response error, an ExecCmd   *)
(* of the same client has returned a response.                             *)
C14_Witness ==
    /\ desync /\ ~closed
    /\ ncmd = 2 /\ pc = "ready"
    /\ result = OK("ExecCmd", BodyA)

(* C15: when the calls of ExecCmd on a client are strictly sequential, a   *)
(* call's expected id is the id of the command packet it wrote, no two     *)
(* calls hold the same expected id, and each call returns the answer to    *)
(* its own command.  (When they are not, the state C15_Witness is          *)
(* reachable: two callers hold the same expected id, one of them wrote its *)
(* command with another id and returned the answer to the other's.)        *)
C15_SequentialCorrelates ==
    (pc = "conc" /\ callers.serial) =>
        /\ \A i \in Callers :
             LET l == callers.of[i] IN
             /\ l.wrote # NoPkt => l.wrote.ID = l.expectedID
             /\ l.pc = "done" => l.ret = OK("ExecCmd", l.body)
        /\ \A i, j \in Callers :
             (i # j /\ callers.of[i].pc # "idle" /\ callers.of[j].pc # "idle")
             => callers.of[i].expectedID # callers.of[j].expectedID

(* Without serialization: both callers hold the expected id 0, caller 2    *)
(* wrote its command packet with the id 1 and its call has returned the    *)
(* answer to caller 1's command.                                           *)
C15_Witness ==
    /\ pc = "conc" /\ ~callers.serial
    /\ callers.of[1].expectedID = 0 /\ callers.of[1].wrote.ID = 0
    /\ callers.of[1].wrote.Type = execCommand
    /\ callers.of[2].expectedID = 0 /\ callers.of[2].wrote.ID = 1
    /\ callers.of[2].pc = "done"
    /\ callers.of[2].ret = OK("ExecCmd", callers.of[1].body)

(* The operands one after the other with sep between consecutive ones.     *)
RECURSIVE Join(_, _)
Join(ops, sep) ==
    IF ops = <<>> THEN <<>>
    ELSE IF Len(ops) = 1 THEN ops[1]
    ELSE Join(Take(ops, Len(ops) - 1), sep) \o sep \o ops[Len(ops)]

(* s ends in a space, a tab, a newline or a carriage return.               *)
EndsInSpace(s) == s # <<>> /\ s[Len(s)] \in {32, 9, 10, 13}

(* C16, as stated: String() is the verb and the arguments of the last      *)
(* WithArgs call, in order, with one space between them, and it never ends *)
(* in a newline or in whitespace; with no arguments it is the verb.        *)
C16_Rendering ==
    (pc = "cmd" /\ result.op = "String") =>
        /\ result.resp = Join(<<command.cmd>> \o command.args, SP)
        /\ ~EndsInSpace(result.resp)
        /\ command.args = <<>> => result.resp = command.cmd

(* C16, amended: String() is the verb and the arguments of the last        *)
(* WithArgs call, in order, with one space between consecutive operands    *)
(* and without the newline that Sprintln appends; with no arguments it is  *)
(* the verb; it ends in whitespace exactly when the last operand is empty  *)
(* (and not the only one) or ends in whitespace itself.                    *)
C16_RenderingJoined ==
    (pc = "cmd" /\ result.op = "String") =>
        LET ops == <<command.cmd>> \o command.args
            last == ops[Len(ops)]
        IN  /\ result.resp = Join(ops, SP)
            /\ command.args = <<>> => result.resp = command.cmd
            /\ EndsInSpace(result.resp)
                 <=> (EndsInSpace(last) \/ (last = <<>> /\ Len(ops) > 1))

(* String() of a command whose last argument is the empty string: the      *)
(* rendering ends in the separating space.                                 *)
C16_Witness ==
    /\ pc = "cmd" /\ result.op = "String"
    /\ command = WithArgs(NewCmd(<<101>>), << <<116>>, <<>> >>)
    /\ result.resp = <<101, 32, 116, 32>>

(* C17: in multi-packet mode an ExecCmd whose writes succeed writes two    *)
(* packets and no more: the execCommand packet with the id N the counter   *)
(* had, then an empty responseValue packet with the id N + 1.  The counter *)
(* is N + 2 afterwards, the read loop is entered with the expected id N,   *)
(* and nothing has been read from the stream by then.                      *)
C17_MultiWritesTwo ==
    [][ \A c \in {d \in Cmds : ~HasHighByte(CmdString(d))} :
          (multi /\ pc = "ready" /\ ~closed /\ ExecCmd(c, TRUE, TRUE))
          => /\ out' = out \o WriteTo(newPkt(execCommand, reqID, CmdString(c)))
                          \o WriteTo(newPkt(responseValue, Inc32(reqID), <<>>))
             /\ reqID' = Inc32(Inc32(reqID))
             /\ expectedID' = reqID
             /\ pc' = "read"
             /\ stream' = stream /\ got' = <<>> /\ buf' = buf /\ cnt' = cnt ]_vars

(* After a handshake with a password, the first ExecCmd in multi-packet    *)
(* mode has written its two packets with the ids 1 and 2.                  *)
C17_Witness ==
    /\ multi /\ pc = "read" /\ ncmd = 1 /\ got = <<>>
    /\ expectedID = 1 /\ reqID = 3
    /\ LET ps == PktsOf(out)
       IN  /\ Len(ps) = 3
           /\ ps[2].Type = execCommand /\ ps[2].ID = 1
           /\ ps[3] = newPkt(responseValue, 2, <<>>)

(* The bytes of the frames tx[a], ..., tx[b] of the codec harness.         *)
RECURSIVE FrameBytes(_, _)
FrameBytes(a, b) ==
    IF a > b THEN <<>>
    ELSE (IF tx[a].raw THEN tx[a].body
          ELSE WriteTo(newPkt(tx[a].t, tx[a].id, tx[a].body)))
         \o FrameBytes(a + 1, b)

(* C18: a ReadFrom that decodes a packet takes size + 4 bytes off the      *)
(* stream, size being the frame's size field, and returns that count; when *)
(* the frames up to it were written by WriteTo, what it leaves on the      *)
(* stream is the frames written after it, whole.                           *)
C18_ConsumesSizePlus4 ==
    [][ (rx' # rx /\ rx'[Len(rx')].st = "ok")
        => LET r == rx'[Len(rx')]
               size == GetLE32(Take(stream, 4))
           IN  /\ r.p.Size = size
               /\ r.n = size + 4
               /\ stream' = Drop(stream, size + 4)
               /\ (\A j \in 1..Len(rx') : ~tx[j].raw)
                    => stream' = FrameBytes(Len(rx') + 1, sent) ]_vars

(* Two packets were written back to back and one ReadFrom has run: it      *)
(* decoded the first and the second is on the stream, whole.               *)
C18_Witness ==
    /\ pc = "codec"
    /\ sent = 2 /\ ~tx[1].raw /\ ~tx[2].raw
    /\ Len(rx) = 1 /\ rx[1].st = "ok"
    /\ rx[1].p.body = <<116, 0, 255>> /\ rx[1].n = 17
    /\ stream = WriteTo(newPkt(tx[2].t, tx[2].id, tx[2].body))

(* Some packet among the bytes s is an execCommand packet.                 *)
HasExec(s) == \E i \in 1..Len(PktsOf(s)) : PktsOf(s)[i].Type = execCommand

(* C19: no execCommand packet is written before the handshake has ended in *)
(* success.  NewClient returns a client (the client becomes ready) only    *)
(* when no password is set or when auth has decoded authResponse with the  *)
(* id 0 as its last packet; when the handshake returns an error, NewClient *)
(* returns no client, and it has closed the connection if it had one.      *)
C19_NoExecBeforeAuth ==
    /\ [](pc \in {"new", "auth1", "auth2", "failed"} => ~HasExec(out))
    /\ [][ /\ (pc \in {"new", "auth1", "auth2"} /\ pc' = "ready")
              => /\ result' = OK("NewClient", <<>>)
                 /\ ~closed'
                 /\ \/ pc = "new" /\ pwd' = <<>>
                    \/ /\ pc # "new" /\ pwd # <<>>
                       /\ Decoded /\ Rd.p.ID = 0 /\ Rd.p.Type = authResponse
           /\ (pc \in {"new", "auth1", "auth2"}
               /\ result'.op = "NewClient" /\ result'.err \notin {"nil", "running"})
              => /\ pc' = "failed"
                 /\ out' = out
                 /\ closed' = (result'.err # "ErrNilOption" /\ result'.msg.text # "dial")
           /\ (out' # out /\ pc # "new") => pc = "ready" ]_vars

(* The handshake has failed on a frame with a bad trailer: the connection  *)
(* is closed and only the auth packet was written.                         *)
C19_Witness ==
    /\ pc = "failed" /\ closed
    /\ result.op = "NewClient" /\ result.err = "ErrMalformedResponse"
    /\ result.msg.text = "invalid trailer"
    /\ out = WriteTo(newPkt(auth, 0, PW))

(* The step is a readPkt of the client: the peer's steps count a frame or  *)
(* end the stream.                                                         *)
ReadStep == Listening /\ sent' = sent /\ eof' = eof

(* C20: there is no retry.  In a handshake or an ExecCmd, a failed write   *)
(* of the first packet ends the operation with no byte written (in         *)
(* multi-packet mode the empty packet is not written after it); a readPkt  *)
(* that does not decode a packet, and a decoded packet that fails a check, *)
(* end the operation too.  The operation returns the error and an empty    *)
(* response, and it writes nothing and reads nothing more.                 *)
C20_NoRetry ==
    [][ /\ \A c \in {d \in Cmds : ~HasHighByte(CmdString(d))}, w \in BOOLEAN :
             (pc = "ready" /\ ExecCmd(c, FALSE, w))
             => /\ pc' = "ready"
                /\ result'.err = "transport" /\ result'.resp = <<>>
                /\ out' = out /\ stream' = stream
                /\ reqID' = Inc32(reqID)
        /\ (ReadStep /\ Rd.st # "ok")
             => /\ pc' \in {"ready", "failed"}
                /\ result'.err \in {"transport", "ErrMalformedResponse"}
                /\ result'.resp = <<>>
                /\ out' = out
        /\ (ReadStep /\ Rd.st = "ok" /\ result'.err \notin {"nil", "running"})
             => /\ pc' \in {"ready", "failed"}
                /\ result'.resp = <<>>
                /\ out' = out /\ stream' = Rd.rest ]_vars

(* The bodies of the packets of s that carry the id, one after the other.  *)
RECURSIVE BodiesWithID(_, _)
BodiesWithID(s, id) ==
    IF s = <<>> THEN <<>>
    ELSE (IF s[1].ID = id THEN s[1].body ELSE <<>>) \o BodiesWithID(Tail(s), id)

(* C21: in multi-packet mode a responseValue packet with id N that is      *)
(* decoded after the first (empty) packet with id N+1 is accepted: the     *)
(* read loop goes on and the packet's body is appended.  When the marker   *)
(* packet ends the call, the response is the bodies of all packets with id *)
(* N decoded before it, in arrival order, on whichever side of the first   *)
(* packet with id N+1 they came.                                           *)
C21_IDNAfterEcho ==
    [][ /\ (pc = "read" /\ multi /\ Decoded /\ cnt = 1 /\ IsRV(Rd.p, expectedID))
           => /\ pc' = "read"
              /\ result' = result
              /\ cnt' = 1
              /\ buf' = buf \o Rd.p.body
              /\ got' = Append(got, Rd.p)
        /\ (pc = "read" /\ multi /\ pc' = "ready" /\ result'.err = "nil")
           => result'.resp = BodiesWithID(got, expectedID) ]_vars

(* A packet with id N, the empty packet with id N+1 and a second packet    *)
(* with id N have been decoded, and the marker packet is next on the       *)
(* stream.                                                                 *)
C21_Witness ==
    /\ pc = "read" /\ multi /\ cnt = 1
    /\ Len(got) = 3
    /\ IsRV(got[1], expectedID) /\ got[1].body = BodyA
    /\ IsRV(got[2], Inc32(expectedID)) /\ got[2].body = <<>>
    /\ IsRV(got[3], expectedID) /\ got[3].body = BodyB
    /\ buf = BodyA \o BodyB
    /\ Rd.st = "ok" /\ IsRV(Rd.p, Inc32(expectedID)) /\ Rd.p.body = responseBody

====
